---- MODULE Spec2Model ----
(***************************************************************************)
(* SwarmDecisionEngine (backend/src/swarm/decision_engine.py).             *)
(*                                                                         *)
(* One engine instance is shared by the caller threads of Threads.  Each   *)
(* thread runs make_decision statement by statement, entered directly or   *)
(* through make_decision_with_custom_people; the only state the calls      *)
(* share is resource_agent.available_people.  get_engine_status may be     *)
(* called at any time.  Python mappings are                                *)
(* functions over their keys, lists are sequences, an f-string is the      *)
(* sequence of its pieces, and a real number in [0,1] is its number of     *)
(* tenths (0.1 is 1, 1.0 is 10).                                           *)
(***************************************************************************)
EXTENDS Naturals, Sequences, FiniteSets

VARIABLES
    pc,                \* the statement each thread is at
    task,              \* make_decision's argument task
    people_arg,        \* make_decision's argument people, as the caller passed it
    people,            \* the local people after lines 53-54
    agent_results,     \* the local agent_results
    final_decision,    \* the local final_decision
    exc,               \* the exception bound to e in the except clause
    ret,               \* how the call ended: a returned Decision or a raised exception
    available_people,  \* resource_agent.available_people, shared by all calls
    pool_before,       \* history: available_people when the latest call was entered
    coordinated,       \* history: what coordinate_decision returned to this call
    failed_at,         \* history: the step of this call that raised
    via,               \* history: the caller's invocation, as it was made
    calls,             \* history: the collaborator calls of this call, in order
    collaborators,     \* the attributes of the agents and of the coordinator
    status             \* how the latest call of get_engine_status ended

vars == << pc, task, people_arg, people, agent_results, final_decision, exc,
           ret, available_people, pool_before, coordinated, failed_at, via,
           calls, collaborators, status >>

----------------------------------------------------------------------------
(* Bounds *)

\* datetime.now() is read from a clock with this many distinct readings
MaxTime == 2

Threads == {"t1", "t2"}

Timestamps == 1..MaxTime

----------------------------------------------------------------------------
(* Python values *)

EmptyDict == [k \in {} |-> ""]

\* dict.get(key, default)
Get(d, k, default) == IF k \in DOMAIN d THEN d[k] ELSE default

\* dict.update(other): every key of other is set, whether or not d had it
Update(d, other) ==
    [k \in (DOMAIN d) \cup (DOMAIN other) |->
        IF k \in DOMAIN other THEN other[k] ELSE d[k]]

\* a Python value passed as people: None, a list, or a value without len()
NoPeople == [kind |-> "None", items |-> << >>]

List(items) == [kind |-> "list", items |-> items]

NotSized == [kind |-> "int", items |-> << >>]

\* whether len(v) is defined, and its value
HasLen(v) == v.kind = "list"

PyLen(v) == Len(v.items)

Person(id, name, email, skills, availability, workload, level, department) ==
    [id |-> id, name |-> name, email |-> email, skills |-> skills,
     availability |-> availability, current_workload |-> workload,
     experience_level |-> level, department |-> department]

\* _get_default_people
_get_default_people ==
    << Person("PERSON001", "Alice Chen", "alice@company.com",
              << "Python", "Flask", "Database", "Frontend" >>,
              8, 6, "senior", "Engineering"),
       Person("PERSON002", "Bob Wang", "bob@company.com",
              << "Python", "Neo4j", "AI/ML", "System Design" >>,
              9, 4, "senior", "Engineering"),
       Person("PERSON003", "Carol Liu", "carol@company.com",
              << "Project Management", "Requirements Analysis", "Documentation" >>,
              7, 5, "mid", "Product"),
       Person("PERSON004", "David Zhang", "david@company.com",
              << "System Design", "Architecture", "Performance" >>,
              6, 7, "senior", "Engineering") >>

\* two caller-supplied pools, of different lengths
PoolA ==
    << Person("A1", "Ann", "ann@a.org", << "Python" >>, 10, 0, "junior", "A") >>

PoolB ==
    << Person("B1", "Ben", "ben@b.org", << "Go" >>, 5, 5, "mid", "B"),
       Person("B2", "Bea", "bea@b.org", << "Rust" >>, 4, 2, "senior", "B") >>

\* the values a caller passes as people
PeopleArgs == { NoPeople, List(_get_default_people), List(PoolA), List(PoolB), NotSized }

\* a task is a mapping, or (the annotation is not enforced) something else
Mapping(fields) == [mapping |-> TRUE, fields |-> fields]

NotAMapping == [mapping |-> FALSE, fields |-> EmptyDict]

TaskT1 == Mapping([id |-> "T1"])

TaskNoId == Mapping(EmptyDict)

Tasks == { TaskT1, TaskNoId, NotAMapping }

\* exceptions: the class and str(e)
Exc(cls, msg) == [cls |-> cls, msg |-> msg]

NoExc == Exc("", "")

\* the classes the model raises that derive from Exception
ExceptionClasses == { "RuntimeError", "ValueError", "AttributeError", "TypeError" }

\* except Exception (line 97) catches these and no other BaseException
IsException(e) == e.cls \in ExceptionClasses

\* what a collaborator may raise: an exception with a message, one built
\* with no arguments (str(e) is ""), and one outside Exception
CollaboratorRaises ==
    { Exc("RuntimeError", "agent failed"),
      Exc("ValueError", ""),
      Exc("KeyboardInterrupt", "") }

\* x.get / x.update on a value that is no mapping
AttributeError == Exc("AttributeError", "object has no attribute")

\* len(x) on a value that has no len()
TypeError == Exc("TypeError", "object has no len()")

----------------------------------------------------------------------------
(* The engine *)

\* __init__
name == "Swarm Decision Engine"

version == "1.0.0"

agents == << "priority_agent", "resource_agent", "risk_agent" >>

\* self.coordinator
coordinator == "coordinator"

\* the degraded Decision's confidence, 0.1
DegradedConfidence == 1

\* getattr(obj, attr, default)
Getattr(obj, attr, default) == IF attr \in DOMAIN obj THEN obj[attr] ELSE default

\* obj.attr
HasAttr(obj, attr) == attr \in DOMAIN obj

\* a status entry that reports an empty version for a collaborator without one
StatusEntryEmptyVersion(obj) ==
    [name |-> obj["name"],
     version |-> Getattr(obj, "version", ""),
     status |-> "active"]

\* lines 161-165 and 169-173: the status entry of one collaborator
StatusEntry(obj) ==
    [name |-> obj["name"],
     version |-> Getattr(obj, "version", "unknown"),
     status |-> "active"]

\* lines 158-175: the mapping get_engine_status returns
EngineStatus(cs) ==
    [name |-> name,
     version |-> version,
     agents_count |-> Len(agents),
     agents_status |-> [i \in 1..Len(agents) |-> StatusEntry(cs[agents[i]])],
     coordinator_status |-> StatusEntry(cs[coordinator])]

\* an omitted people read as the empty list
ResolvePoolEmpty(arg) == IF arg = NoPeople THEN List(<< >>) ELSE arg

\* lines 53-54
ResolvePool(arg) == IF arg = NoPeople THEN List(_get_default_people) ELSE arg

\* task.get('id'): the default left out, so a missing id reads as None
TaskGetIdNoDefault(tk) == Get(tk.fields, "id", "None")

\* task.get('id', 'unknown')
TaskGetId(tk) == Get(tk.fields, "id", "unknown")

\* the mapping of lines 85-91
EngineMetadata(pool) ==
    [swarm_engine |-> name,
     engine_version |-> version,
     decision_method |-> "swarm_intelligence",
     agents_involved |-> Len(agents),
     people_considered |-> PyLen(pool)]

\* setdefault in place of update: a key the Decision already has is kept
AttachMetadataKeepExisting(d, pool) == Update(EngineMetadata(pool), d)

\* final_decision.update({...}), lines 85-91
AttachMetadata(d, pool) == Update(d, EngineMetadata(pool))

\* the fallback mapping with assigned_to left out
DegradedDecisionNoAssignee(tk, e, now) ==
    [decision_id |-> << "DEC_", TaskGetId(tk), "_ERROR" >>,
     task_id |-> TaskGetId(tk),
     recommendation |-> "swarm decision failed, manual evaluation recommended",
     confidence |-> DegradedConfidence,
     risk_level |-> "high",
     error |-> e.msg,
     swarm_engine |-> name,
     created_at |-> now]

\* the mapping of lines 99-109
DegradedDecision(tk, e, now) ==
    [decision_id |-> << "DEC_", TaskGetId(tk), "_ERROR" >>,
     task_id |-> TaskGetId(tk),
     recommendation |-> "swarm decision failed, manual evaluation recommended",
     confidence |-> DegradedConfidence,
     risk_level |-> "high",
     assigned_to |-> "unassigned",
     error |-> e.msg,
     swarm_engine |-> name,
     created_at |-> now]

----------------------------------------------------------------------------
(* The collaborators (agents/*.py) *)

\* ResourceAgent exposes available_people
HasAvailablePeople == TRUE

\* the attributes the engine holds the collaborators in
Slots == { "priority_agent", "resource_agent", "risk_agent", "coordinator" }

CollaboratorName ==
    [priority_agent |-> "Priority Agent",
     resource_agent |-> "Resource Agent",
     risk_agent |-> "Risk Agent",
     coordinator |-> "Coordinator"]

\* a collaborator has a name, and a version string or no version at all
Versioned(s) == [name |-> CollaboratorName[s], version |-> "1.0.0"]

Unversioned(s) == [name |-> CollaboratorName[s]]

\* the collaborators as constructed, the agents versioned, the coordinator not
Constructed ==
    [s \in Slots |-> IF s = "coordinator" THEN Unversioned(s) ELSE Versioned(s)]

\* every way the four collaborators may or may not carry a version
CollaboratorSets ==
    { [s \in Slots |-> IF s \in V THEN Versioned(s) ELSE Unversioned(s)] :
        V \in SUBSET Slots }

\* ResourceAgent.available_people after construction
InitialPool == List(<< >>)

\* PriorityAgent.analyze_priority returns a mapping
PriorityResults(tk) == { [priority_level |-> "high"] }

\* ResourceAgent.find_suitable_resources evaluates the pool current at call time
ResourceResults(tk, pool) == { [candidates |-> pool] }

\* RiskAgent.assess_risks returns a mapping
RiskResults(tk) == { [risk_level |-> "medium"] }

Assignee(results) ==
    IF PyLen(results["resources"].candidates) > 0
        THEN results["resources"].candidates.items[1].id
        ELSE "nobody"

\* Coordinator.coordinate_decision returns a Decision with the required fields
CoordinatorDecision(tk, results) ==
    [decision_id |-> << "DEC_", TaskGetId(tk) >>,
     task_id |-> TaskGetId(tk),
     recommendation |-> "assign",
     confidence |-> 8,
     risk_level |-> results["risks"].risk_level,
     assigned_to |-> Assignee(results)]

\* a Coordinator that also reports on itself under the engine's metadata names
CoordinatorOwnKeys ==
    [swarm_engine |-> "Coordinator",
     agents_involved |-> 1,
     confidence |-> 10,
     risk_level |-> "low"]

\* what coordinate_decision may return: a Decision, or a value that is no mapping
CoordinatorReturns(tk, results) ==
    { Mapping(CoordinatorDecision(tk, results)),
      Mapping(Update(CoordinatorDecision(tk, results), CoordinatorOwnKeys)),
      NotAMapping }

----------------------------------------------------------------------------
(* State *)

\* a caller invoking the public operation op with a task and people
Invocation(op, tk, arg) == [op |-> op, task |-> tk, people |-> arg]

NoInvocation == Invocation("none", NotAMapping, NoPeople)

NoStatus == [kind |-> "none", value |-> EmptyDict, exc |-> NoExc]

NoRet == [kind |-> "none", decision |-> EmptyDict, exc |-> NoExc]

Returned(d) == [kind |-> "returned", decision |-> d, exc |-> NoExc]

Raised(e) == [kind |-> "raised", decision |-> EmptyDict, exc |-> e]

\* the engine after construction around the collaborators cs
Constructs(cs) ==
    /\ collaborators = cs
    /\ status = NoStatus
    /\ pc = [t \in Threads |-> "idle"]
    /\ task = [t \in Threads |-> NotAMapping]
    /\ people_arg = [t \in Threads |-> NoPeople]
    /\ people = [t \in Threads |-> NoPeople]
    /\ agent_results = [t \in Threads |-> EmptyDict]
    /\ final_decision = [t \in Threads |-> NotAMapping]
    /\ exc = [t \in Threads |-> NoExc]
    /\ ret = [t \in Threads |-> NoRet]
    /\ available_people = InitialPool
    /\ pool_before = InitialPool
    /\ coordinated = [t \in Threads |-> NotAMapping]
    /\ failed_at = [t \in Threads |-> "none"]
    /\ via = [t \in Threads |-> NoInvocation]
    /\ calls = [t \in Threads |-> << >>]

Init == Constructs(Constructed)

\* e is raised at step: into the except clause of line 97 when it is an
\* Exception, out of make_decision otherwise
Raise(t, e, step) ==
    /\ failed_at' = [failed_at EXCEPT ![t] = step]
    /\ IF IsException(e)
          THEN /\ pc' = [pc EXCEPT ![t] = "except"]
               /\ exc' = [exc EXCEPT ![t] = e]
               /\ ret' = ret
          ELSE /\ pc' = [pc EXCEPT ![t] = "done"]
               /\ exc' = exc
               /\ ret' = [ret EXCEPT ![t] = Raised(e)]

\* the step succeeds and control moves on
Goto(t, label) ==
    /\ pc' = [pc EXCEPT ![t] = label]
    /\ UNCHANGED << exc, ret, failed_at >>

\* one collaborator call: the method, what it was passed, and how it ended
Call(fn, tk, results, raised, value) ==
    [fn |-> fn, task |-> tk, results |-> results, raised |-> raised, value |-> value]

Called(t, fn, results, raised, value) ==
    calls' = [calls EXCEPT ![t] = Append(@, Call(fn, task[t], results, raised, value))]

\* the body of make_decision is entered with (tk, arg), the caller having
\* made the invocation inv; lines 53-54 resolve the pool
Enter(t, tk, arg, inv) ==
    /\ pc[t] = "idle"
    /\ task' = [task EXCEPT ![t] = tk]
    /\ people_arg' = [people_arg EXCEPT ![t] = arg]
    /\ people' = [people EXCEPT ![t] = ResolvePool(arg)]
    /\ pool_before' = available_people
    /\ via' = [via EXCEPT ![t] = inv]
    /\ Goto(t, "inject")
    /\ UNCHANGED << agent_results, final_decision, available_people, coordinated,
                    calls, collaborators, status >>

\* a caller invokes make_decision(tk, arg)
make_decision(t, tk, arg) ==
    Enter(t, tk, arg, Invocation("make_decision", tk, arg))

\* an alias that forwards the task alone
make_decision_with_custom_people_drops_people(t, tk, arg) ==
    Enter(t, tk, NoPeople, Invocation("make_decision_with_custom_people", tk, arg))

\* line 188: return self.make_decision(task, people)
make_decision_with_custom_people(t, tk, arg) ==
    Enter(t, tk, arg, Invocation("make_decision_with_custom_people", tk, arg))

\* an injection that also fills in the id the task lacks (task.setdefault)
InjectPoolSetsDefaultId(t) ==
    /\ pc[t] = "inject"
    /\ available_people' = IF HasAvailablePeople THEN people[t] ELSE available_people
    /\ IF task[t].mapping
          THEN /\ task' = [task EXCEPT ![t] =
                      Mapping(Update(@.fields, [id |-> TaskGetId(@)]))]
               /\ Goto(t, "priority")
          ELSE /\ task' = task
               /\ Raise(t, AttributeError, "task_get")
    /\ UNCHANGED << people_arg, people, agent_results, final_decision,
                    pool_before, coordinated, via, calls,
                    collaborators, status >>

\* lines 59-60 alone: the pool is left as the previous call wrote it
InjectPoolSkipsWrite(t) ==
    /\ pc[t] = "inject"
    /\ IF task[t].mapping
          THEN Goto(t, "priority")
          ELSE Raise(t, AttributeError, "task_get")
    /\ UNCHANGED << task, people_arg, people, agent_results, final_decision,
                    available_people, pool_before, coordinated, via, calls,
                    collaborators, status >>

\* lines 57-60: the pool is written to the shared collaborator, then
\* task.get('id', 'unknown') is evaluated for the log line
InjectPool(t) ==
    /\ pc[t] = "inject"
    /\ available_people' = IF HasAvailablePeople THEN people[t] ELSE available_people
    /\ IF task[t].mapping
          THEN Goto(t, "priority")
          ELSE Raise(t, AttributeError, "task_get")
    /\ UNCHANGED << task, people_arg, people, agent_results, final_decision,
                    pool_before, coordinated, via, calls,
                    collaborators, status >>

\* a priority step that logs the failure and goes on with a default result
analyze_priority_swallows_failure(t) ==
    /\ pc[t] = "priority"
    /\ \/ \E r \in PriorityResults(task[t]) :
            /\ agent_results' = [agent_results EXCEPT ![t] = Update(@, [priority |-> r])]
            /\ Called(t, "analyze_priority", EmptyDict, FALSE, r)
       \/ \E e \in CollaboratorRaises :
            /\ agent_results' = [agent_results EXCEPT ![t] =
                    Update(@, [priority |-> [priority_level |-> "medium"]])]
            /\ Called(t, "analyze_priority", EmptyDict, TRUE, EmptyDict)
    /\ Goto(t, "resources")
    /\ UNCHANGED << task, people_arg, people, final_decision, available_people,
                    pool_before, coordinated, via, collaborators, status >>

\* lines 67-68
analyze_priority(t) ==
    /\ pc[t] = "priority"
    /\ \/ \E r \in PriorityResults(task[t]) :
            /\ agent_results' = [agent_results EXCEPT ![t] = Update(@, [priority |-> r])]
            /\ Called(t, "analyze_priority", EmptyDict, FALSE, r)
            /\ Goto(t, "resources")
       \/ \E e \in CollaboratorRaises :
            /\ Raise(t, e, "priority")
            /\ Called(t, "analyze_priority", EmptyDict, TRUE, EmptyDict)
            /\ UNCHANGED agent_results
    /\ UNCHANGED << task, people_arg, people, final_decision, available_people,
                    pool_before, coordinated, via, collaborators, status >>

\* lines 72-73
find_suitable_resources(t) ==
    /\ pc[t] = "resources"
    /\ \/ \E r \in ResourceResults(task[t], available_people) :
            /\ agent_results' = [agent_results EXCEPT ![t] = Update(@, [resources |-> r])]
            /\ Called(t, "find_suitable_resources", EmptyDict, FALSE, r)
            /\ Goto(t, "risks")
       \/ \E e \in CollaboratorRaises :
            /\ Raise(t, e, "resources")
            /\ Called(t, "find_suitable_resources", EmptyDict, TRUE, EmptyDict)
            /\ UNCHANGED agent_results
    /\ UNCHANGED << task, people_arg, people, final_decision, available_people,
                    pool_before, coordinated, via, collaborators, status >>

\* a risk step that files a fixed assessment, whatever the collaborator returned
assess_risks_files_default(t) ==
    /\ pc[t] = "risks"
    /\ \/ \E r \in RiskResults(task[t]) :
            /\ agent_results' = [agent_results EXCEPT ![t] =
                    Update(@, [risks |-> [risk_level |-> "low"]])]
            /\ Called(t, "assess_risks", EmptyDict, FALSE, r)
            /\ Goto(t, "coordinate")
       \/ \E e \in CollaboratorRaises :
            /\ Raise(t, e, "risks")
            /\ Called(t, "assess_risks", EmptyDict, TRUE, EmptyDict)
            /\ UNCHANGED agent_results
    /\ UNCHANGED << task, people_arg, people, final_decision, available_people,
                    pool_before, coordinated, via, collaborators, status >>

\* lines 77-78
assess_risks(t) ==
    /\ pc[t] = "risks"
    /\ \/ \E r \in RiskResults(task[t]) :
            /\ agent_results' = [agent_results EXCEPT ![t] = Update(@, [risks |-> r])]
            /\ Called(t, "assess_risks", EmptyDict, FALSE, r)
            /\ Goto(t, "coordinate")
       \/ \E e \in CollaboratorRaises :
            /\ Raise(t, e, "risks")
            /\ Called(t, "assess_risks", EmptyDict, TRUE, EmptyDict)
            /\ UNCHANGED agent_results
    /\ UNCHANGED << task, people_arg, people, final_decision, available_people,
                    pool_before, coordinated, via, collaborators, status >>

\* line 82
coordinate_decision(t) ==
    /\ pc[t] = "coordinate"
    /\ \/ \E d \in CoordinatorReturns(task[t], agent_results[t]) :
            /\ final_decision' = [final_decision EXCEPT ![t] = d]
            /\ coordinated' = [coordinated EXCEPT ![t] = d]
            /\ Called(t, "coordinate_decision", agent_results[t], FALSE, d.fields)
            /\ Goto(t, "attach")
       \/ \E e \in CollaboratorRaises :
            /\ Raise(t, e, "coordinator")
            /\ Called(t, "coordinate_decision", agent_results[t], TRUE, EmptyDict)
            /\ UNCHANGED << final_decision, coordinated >>
    /\ UNCHANGED << task, people_arg, people, agent_results, available_people,
                    pool_before, via, collaborators, status >>

\* lines 85-95: the metadata is attached and the Decision returned.  Python
\* looks up final_decision.update, then builds the argument (len(people)),
\* then calls update; either of the first two may raise, before any key is set
ReturnDecision(t) ==
    /\ pc[t] = "attach"
    /\ IF ~ final_decision[t].mapping
          THEN /\ Raise(t, AttributeError, "attach")
               /\ UNCHANGED final_decision
          ELSE IF ~ HasLen(people[t])
          THEN /\ Raise(t, TypeError, "attach")
               /\ UNCHANGED final_decision
          ELSE /\ final_decision' = [final_decision EXCEPT ![t] =
                      Mapping(AttachMetadata(@.fields, people[t]))]
               /\ ret' = [ret EXCEPT ![t] = Returned(final_decision'[t].fields)]
               /\ pc' = [pc EXCEPT ![t] = "done"]
               /\ UNCHANGED << exc, failed_at >>
    /\ UNCHANGED << task, people_arg, people, agent_results, available_people,
                    pool_before, coordinated, via, calls,
                    collaborators, status >>

\* an except clause that reports the error on whatever final_decision holds
HandleExceptionReturnsPartial(t) ==
    /\ pc[t] = "except"
    /\ pc' = [pc EXCEPT ![t] = "done"]
    /\ IF task[t].mapping
          THEN \E now \in Timestamps :
                  ret' = [ret EXCEPT ![t] = Returned(
                      IF final_decision[t].mapping
                         THEN Update(final_decision[t].fields, [error |-> exc[t].msg])
                         ELSE DegradedDecision(task[t], exc[t], now))]
          ELSE ret' = [ret EXCEPT ![t] = Raised(AttributeError)]
    /\ UNCHANGED << task, people_arg, people, agent_results, final_decision, exc,
                    available_people, pool_before, coordinated, failed_at, via,
                    calls, collaborators, status >>

\* lines 97-109: the degraded Decision is built and returned; building it
\* evaluates task.get again, outside any try
HandleException(t) ==
    /\ pc[t] = "except"
    /\ pc' = [pc EXCEPT ![t] = "done"]
    /\ IF task[t].mapping
          THEN \E now \in Timestamps :
                  ret' = [ret EXCEPT ![t] = Returned(DegradedDecision(task[t], exc[t], now))]
          ELSE ret' = [ret EXCEPT ![t] = Raised(AttributeError)]
    /\ UNCHANGED << task, people_arg, people, agent_results, final_decision, exc,
                    available_people, pool_before, coordinated, failed_at, via,
                    calls, collaborators, status >>

\* the caller has the outcome; the frame and its locals are gone
CallerResumes(t) ==
    /\ pc[t] = "done"
    /\ pc' = [pc EXCEPT ![t] = "idle"]
    /\ task' = [task EXCEPT ![t] = NotAMapping]
    /\ people_arg' = [people_arg EXCEPT ![t] = NoPeople]
    /\ people' = [people EXCEPT ![t] = NoPeople]
    /\ agent_results' = [agent_results EXCEPT ![t] = EmptyDict]
    /\ final_decision' = [final_decision EXCEPT ![t] = NotAMapping]
    /\ exc' = [exc EXCEPT ![t] = NoExc]
    /\ ret' = [ret EXCEPT ![t] = NoRet]
    /\ coordinated' = [coordinated EXCEPT ![t] = NotAMapping]
    /\ failed_at' = [failed_at EXCEPT ![t] = "none"]
    /\ via' = [via EXCEPT ![t] = NoInvocation]
    /\ calls' = [calls EXCEPT ![t] = << >>]
    /\ UNCHANGED << available_people, pool_before, collaborators, status >>

\* a status call that also puts the default roster back on the ResourceFit
\* collaborator
get_engine_status_resets_pool ==
    /\ status' = [kind |-> "returned", value |-> EngineStatus(collaborators),
                  exc |-> NoExc]
    /\ available_people' = List(_get_default_people)
    /\ UNCHANGED << pc, task, people_arg, people, agent_results, final_decision,
                    exc, ret, pool_before, coordinated, failed_at, via,
                    calls, collaborators >>

\* lines 156-175: a caller asks for the status, at any time; agent.name and
\* coordinator.name are read as plain attributes, version through getattr
get_engine_status ==
    /\ status' = IF \A s \in Slots : HasAttr(collaborators[s], "name")
                    THEN [kind |-> "returned", value |-> EngineStatus(collaborators),
                          exc |-> NoExc]
                    ELSE [kind |-> "raised", value |-> EmptyDict,
                          exc |-> AttributeError]
    /\ UNCHANGED << pc, task, people_arg, people, agent_results, final_decision,
                    exc, ret, available_people, pool_before, coordinated,
                    failed_at, via, calls, collaborators >>

\* the caller of get_engine_status has the outcome
StatusCallerResumes ==
    /\ status # NoStatus
    /\ status' = NoStatus
    /\ UNCHANGED << pc, task, people_arg, people, agent_results, final_decision,
                    exc, ret, available_people, pool_before, coordinated,
                    failed_at, via, calls, collaborators >>

Step(t) ==
    \/ InjectPool(t)
    \/ analyze_priority(t)
    \/ find_suitable_resources(t)
    \/ assess_risks(t)
    \/ coordinate_decision(t)
    \/ ReturnDecision(t)
    \/ HandleException(t)
    \/ CallerResumes(t)

\* sequential use, the contract of one decision cycle: a call is entered
\* only when no other call is in progress
Next ==
    \/ \E t \in Threads, tk \in Tasks, arg \in PeopleArgs :
          /\ \A u \in Threads : pc[u] = "idle"
          /\ make_decision(t, tk, arg)
    \/ \E t \in Threads, tk \in Tasks, arg \in PeopleArgs :
          /\ \A u \in Threads : pc[u] = "idle"
          /\ make_decision_with_custom_people(t, tk, arg)
    \/ \E t \in Threads : Step(t)
    \/ get_engine_status
    \/ StatusCallerResumes

Spec == Init /\ [][Next]_vars

\* the same use of an engine constructed around any collaborators
StatusInit == \E cs \in CollaboratorSets : Constructs(cs)

StatusSpec == StatusInit /\ [][Next]_vars

\* the callers of the concurrent scenario pass custom pools
CustomPools == { List(PoolA), List(PoolB) }

\* concurrent use: the threads call into the one engine at any time
ConcurrentNext ==
    \/ \E t \in Threads, tk \in Tasks, arg \in CustomPools : make_decision(t, tk, arg)
    \/ \E t \in Threads : Step(t)

ConcurrentSpec == Init /\ [][ConcurrentNext]_vars

\* the two ways of asking for the default roster
DefaultRosterArgs == { NoPeople, List(_get_default_people) }

\* sequential use in pairs: a call with people omitted or with the default
\* roster passed, then, while its caller still holds the outcome, the same
\* task again from another caller, the roster passed the other way
PairNext ==
    \/ \E t \in Threads, tk \in Tasks, arg \in DefaultRosterArgs :
          /\ \A u \in Threads : pc[u] = "idle"
          /\ make_decision(t, tk, arg)
    \/ \E t \in Threads, u \in Threads, arg \in DefaultRosterArgs :
          /\ pc[u] = "done"
          /\ arg # people_arg[u]
          /\ make_decision(t, task[u], arg)
    \/ \E t \in Threads : Step(t)

PairSpec == Init /\ [][PairNext]_vars

\* sequential use in pairs: a call through either operation, then, while its
\* caller still holds the outcome, the same task and the same people again
\* from another caller through the other operation
AliasNext ==
    \/ \E t \in Threads, tk \in Tasks, arg \in PeopleArgs :
          /\ \A u \in Threads : pc[u] = "idle"
          /\ make_decision(t, tk, arg)
    \/ \E t \in Threads, tk \in Tasks, arg \in PeopleArgs :
          /\ \A u \in Threads : pc[u] = "idle"
          /\ make_decision_with_custom_people(t, tk, arg)
    \/ \E t \in Threads, u \in Threads :
          /\ pc[u] = "done"
          /\ via[u].op = "make_decision_with_custom_people"
          /\ make_decision(t, via[u].task, via[u].people)
    \/ \E t \in Threads, u \in Threads :
          /\ pc[u] = "done"
          /\ via[u].op = "make_decision"
          /\ make_decision_with_custom_people(t, via[u].task, via[u].people)
    \/ \E t \in Threads : Step(t)

AliasSpec == Init /\ [][AliasNext]_vars

----------------------------------------------------------------------------
(* Properties *)

RequiredFields ==
    { "decision_id", "task_id", "recommendation", "confidence", "risk_level",
      "assigned_to" }

MetadataFields ==
    { "swarm_engine", "engine_version", "decision_method", "agents_involved",
      "people_considered" }

DegradedFields ==
    RequiredFields \cup { "error", "swarm_engine", "created_at" }

CollaboratorSteps == { "priority", "resources", "risks", "coordinator" }

\* the call of thread t has ended
Ended(t) == pc[t] = "done"

\* the call of thread t has ended by returning a Decision
HasReturned(t) == pc[t] = "done" /\ ret[t].kind = "returned"

\* ... with no step having raised
Succeeded(t) == HasReturned(t) /\ failed_at[t] = "none"

\* ... after a step raised
Degraded(t) == HasReturned(t) /\ failed_at[t] # "none"

\* what the task's id reads as: its id, or the literal unknown
IdOrUnknown(tk) == IF "id" \in DOMAIN tk.fields THEN tk.fields["id"] ELSE "unknown"

\* C1: every call to make_decision ends by returning a Decision; none ends
\* by raising to its caller, whatever the task and whatever a collaborator
\* raises.
C1_MakeDecisionIsTotal ==
    \A t \in Threads : Ended(t) => ret[t].kind = "returned"

\* C2: with concurrent calls on one engine, the pool that
\* find_suitable_resources evaluated for a call is the pool that call
\* resolved, never the pool another call wrote.
C2_NoCrossContamination ==
    \A t \in Threads :
        "resources" \in DOMAIN agent_results[t]
            => agent_results[t]["resources"].candidates = people[t]

\* C3: when a collaborator or the coordinator raised, the Decision returned
\* has confidence 0.1, risk_level high and a non-empty error field, for
\* every exception raised.
C3_FailureYieldsDegradedDecision ==
    \A t \in Threads :
        HasReturned(t) /\ failed_at[t] \in CollaboratorSteps
            => /\ ret[t].decision["confidence"] = 1
               /\ ret[t].decision["risk_level"] = "high"
               /\ "error" \in DOMAIN ret[t].decision
               /\ ret[t].decision["error"] # ""

\* C4: the five metadata fields are in every Decision returned, success or
\* degraded, with agents_involved 3 and people_considered the length of the
\* pool of that call.
C4_MetadataInEveryDecision ==
    \A t \in Threads :
        HasReturned(t)
            => /\ MetadataFields \subseteq DOMAIN ret[t].decision
               /\ ret[t].decision["agents_involved"] = 3
               /\ ret[t].decision["people_considered"] = PyLen(people[t])

\* C5 as claimed: every key the Coordinator set has, in the Decision
\* returned, the value the Coordinator set, the five metadata names included.
C5_MetadataNeverClobbers ==
    \A t \in Threads :
        Succeeded(t)
            => \A k \in DOMAIN coordinated[t].fields :
                  ret[t].decision[k] = coordinated[t].fields[k]

\* C5 as amended: every key the Coordinator set other than the five metadata
\* names keeps the value the Coordinator set; the five metadata names carry
\* the engine's values, replacing whatever the Coordinator set under them.
C5_MetadataKeepsOtherKeys ==
    \A t \in Threads :
        Succeeded(t)
            => /\ \A k \in (DOMAIN coordinated[t].fields) \ MetadataFields :
                     ret[t].decision[k] = coordinated[t].fields[k]
               /\ ret[t].decision["swarm_engine"] = "Swarm Decision Engine"
               /\ ret[t].decision["engine_version"] = "1.0.0"
               /\ ret[t].decision["decision_method"] = "swarm_intelligence"
               /\ ret[t].decision["agents_involved"] = 3
               /\ ret[t].decision["people_considered"] = PyLen(people[t])

\* a Decision was returned whose Coordinator had set swarm_engine itself
C5_Witness ==
    \E t \in Threads :
        /\ Succeeded(t)
        /\ "swarm_engine" \in DOMAIN coordinated[t].fields
        /\ coordinated[t].fields["swarm_engine"] = "Coordinator"

\* the fixed fallback record for task tk and exception e: nothing in it comes
\* from a collaborator or from the Coordinator
IsFullyDegraded(d, tk, e) ==
    /\ DOMAIN d = DegradedFields
    /\ d["decision_id"] = << "DEC_", IdOrUnknown(tk), "_ERROR" >>
    /\ d["task_id"] = IdOrUnknown(tk)
    /\ d["recommendation"] = "swarm decision failed, manual evaluation recommended"
    /\ d["confidence"] = 1
    /\ d["risk_level"] = "high"
    /\ d["assigned_to"] = "unassigned"
    /\ d["error"] = e.msg
    /\ d["swarm_engine"] = "Swarm Decision Engine"
    /\ d["created_at"] \in Timestamps

\* C6: a Decision returned is either the Coordinator's Decision with the
\* metadata attached (when no step raised) or the fully degraded record
\* (when any step raised, the metadata attach after the Coordinator included).
C6_NoPartialDecision ==
    \A t \in Threads :
        HasReturned(t)
            => IF failed_at[t] = "none"
                  THEN /\ coordinated[t].mapping
                       /\ DOMAIN ret[t].decision =
                             (DOMAIN coordinated[t].fields) \cup MetadataFields
                       /\ \A k \in (DOMAIN coordinated[t].fields) \ MetadataFields :
                             ret[t].decision[k] = coordinated[t].fields[k]
                  ELSE IsFullyDegraded(ret[t].decision, task[t], exc[t])

\* the metadata attach raised after the Coordinator had returned a Decision,
\* and the call returned
C6_Witness ==
    \E t \in Threads :
        /\ Degraded(t)
        /\ failed_at[t] = "attach"
        /\ coordinated[t].mapping
        /\ coordinated[t].fields["recommendation"] = "assign"

WellFormed(d) ==
    /\ RequiredFields \subseteq DOMAIN d
    /\ d["confidence"] \in 0..10
    /\ d["risk_level"] \in { "low", "medium", "high" }

\* C7: every Decision returned, the Coordinator's or the degraded one, has
\* the required fields, a confidence in [0,1] and a risk_level among low,
\* medium, high.
C7_DecisionWellFormed ==
    \A t \in Threads : HasReturned(t) => WellFormed(ret[t].decision)

\* all three collaborators succeeded and the Coordinator's Decision was returned
C7_Witness ==
    \E t \in Threads :
        /\ Succeeded(t)
        /\ DOMAIN agent_results[t] = { "priority", "resources", "risks" }
        /\ ret[t].decision["confidence"] = 8

\* C8: a degraded Decision has a decision_id ending in _ERROR and the
\* task's id, or the literal unknown, as task_id; reading the id of a
\* mapping never raises, so a missing id alone never degrades the call.
C8_DegradedIds ==
    \A t \in Threads :
        /\ Degraded(t)
              => /\ ret[t].decision["decision_id"][Len(ret[t].decision["decision_id"])]
                       = "_ERROR"
                 /\ ret[t].decision["task_id"] = IdOrUnknown(task[t])
                 /\ failed_at[t] \in CollaboratorSteps \cup { "attach" }
        /\ task[t].mapping => failed_at[t] # "task_get"
        /\ Ended(t) /\ task[t] = TaskNoId /\ failed_at[t] = "none"
              => /\ ret[t].kind = "returned"
                 /\ "error" \notin DOMAIN ret[t].decision

\* a task without id met a failing collaborator
C8_Witness ==
    \E t \in Threads :
        /\ Degraded(t)
        /\ task[t] = TaskNoId
        /\ ret[t].decision["task_id"] = "unknown"

\* C9: when a call has ended, the pool on the ResourceFit collaborator is
\* the one it held when the call was entered.
C9_NothingRetained ==
    \A t \in Threads : HasReturned(t) => available_people = pool_before

\* calls t and u are the same task, t with people omitted and u with the
\* default roster passed, and both have ended
OmittedAndExplicit(t, u) ==
    /\ Ended(t) /\ Ended(u)
    /\ task[t] = task[u]
    /\ people_arg[t] = NoPeople
    /\ people_arg[u] = List(_get_default_people)

\* the collaborators behaved alike in both calls: the same step raised the
\* same exception, and the Coordinator answered in the same way
SameBehaviour(t, u) ==
    /\ failed_at[t] = failed_at[u]
    /\ exc[t] = exc[u]
    /\ coordinated[t].mapping = coordinated[u].mapping
    /\ DOMAIN coordinated[t].fields = DOMAIN coordinated[u].fields

\* the same pool was resolved and injected, the collaborators were given and
\* gave the same, and the calls ended alike: the same exception, or Decisions
\* with the same keys and, the timestamp apart, the same values
SameOutcome(t, u) ==
    /\ people[t] = people[u]
    /\ available_people = people[t]
    /\ DOMAIN agent_results[t] = DOMAIN agent_results[u]
    /\ \A k \in DOMAIN agent_results[t] : agent_results[t][k] = agent_results[u][k]
    /\ coordinated[t] = coordinated[u]
    /\ ret[t].kind = ret[u].kind
    /\ ret[t].exc = ret[u].exc
    /\ DOMAIN ret[t].decision = DOMAIN ret[u].decision
    /\ \A k \in (DOMAIN ret[t].decision) \ { "created_at" } :
          ret[t].decision[k] = ret[u].decision[k]

\* the equivalence of C10 alone: it holds of the code
OmittedEquivalentToExplicit ==
    \A t \in Threads, u \in Threads :
        OmittedAndExplicit(t, u) /\ SameBehaviour(t, u) => SameOutcome(t, u)

\* C10: make_decision(task) and make_decision(task, default roster) inject
\* the same pool, make the same collaborator calls and return Decisions with
\* the same fields, and the Decision returned has people_considered 4.
C10_OmittedIsDefault ==
    \A t \in Threads, u \in Threads :
        OmittedAndExplicit(t, u) /\ SameBehaviour(t, u)
            => /\ SameOutcome(t, u)
               /\ \A v \in { t, u } :
                     HasReturned(v)
                         => /\ "people_considered" \in DOMAIN ret[v].decision
                            /\ ret[v].decision["people_considered"] = 4

\* both calls succeeded and returned the same Decision, people_considered 4
OmittedEquivalentWitness ==
    \E t \in Threads, u \in Threads :
        /\ OmittedAndExplicit(t, u)
        /\ Succeeded(t) /\ Succeeded(u)
        /\ ret[t].decision = ret[u].decision
        /\ ret[t].decision["people_considered"] = 4

\* calls t and u are the same task and the same non-null people, t through
\* make_decision_with_custom_people and u through make_decision, and both
\* have ended
AliasAndDirect(t, u) ==
    /\ Ended(t) /\ Ended(u)
    /\ via[t].task = via[u].task
    /\ via[t].people = via[u].people
    /\ via[t].people # NoPeople
    /\ via[t].op = "make_decision_with_custom_people"
    /\ via[u].op = "make_decision"

\* the same collaborator methods were called in the same order, each with
\* the same task and the same results mapping, and each ended the same way
SameCalls(t, u) ==
    /\ Len(calls[t]) = Len(calls[u])
    /\ \A i \in 1..Len(calls[t]) :
          /\ calls[t][i].fn = calls[u][i].fn
          /\ calls[t][i].task = calls[u][i].task
          /\ calls[t][i].results = calls[u][i].results
          /\ calls[t][i].raised = calls[u][i].raised

\* C11: for non-null people, make_decision_with_custom_people(task, people)
\* and make_decision(task, people) make the same collaborator calls in the
\* same order, leave the same pool on the ResourceFit collaborator and end
\* alike, with the same Decision or the same failure.
C11_AliasIsMakeDecision ==
    \A t \in Threads, u \in Threads :
        AliasAndDirect(t, u) /\ SameBehaviour(t, u)
            => SameCalls(t, u) /\ SameOutcome(t, u)

\* a custom pool went through both operations, all four collaborators were
\* called in both, and both returned the same Decision
C11_Witness ==
    \E t \in Threads, u \in Threads :
        /\ AliasAndDirect(t, u)
        /\ via[t].people = List(PoolA)
        /\ Succeeded(t) /\ Succeeded(u)
        /\ Len(calls[t]) = 4
        /\ ret[t].decision = ret[u].decision

\* the step is a call of get_engine_status
StatusCalled == status = NoStatus /\ status' # NoStatus

\* C12: a call of get_engine_status, made in any state of the engine,
\* before, between or in the middle of make_decision calls, returns a status
\* and raises nothing, and leaves the collaborators, the pool on the
\* ResourceFit collaborator and every call in progress as they were.
C12_StatusIsPure ==
    [][ StatusCalled
          => /\ status'.kind = "returned"
             /\ UNCHANGED << pc, task, people_arg, people, agent_results,
                             final_decision, exc, ret, available_people,
                             pool_before, coordinated, failed_at, via, calls,
                             collaborators >> ]_vars

\* the status was returned in the middle of a make_decision call that had
\* injected a custom pool, the coordinator carrying no version
C12_Witness ==
    \E t \in Threads :
        /\ status.kind = "returned"
        /\ pc[t] = "risks"
        /\ available_people = List(PoolB)
        /\ ~ HasAttr(collaborators[coordinator], "version")
        /\ status.value.coordinator_status.version = "unknown"

\* entry e reports collaborator obj: its name, and its version or, when it
\* has none, the literal unknown; neither is missing or empty
Reports(e, obj) ==
    /\ DOMAIN e = { "name", "version", "status" }
    /\ e.name = obj.name
    /\ e.version = IF "version" \in DOMAIN obj THEN obj.version ELSE "unknown"
    /\ e.name # "" /\ e.version # ""

\* C13: the status get_engine_status returns has one entry for each of the
\* three scoring collaborators and one for the coordinator, each with the
\* collaborator's name and its version, or unknown when it has none.
C13_OneEntryPerCollaborator ==
    status.kind = "returned"
        => /\ DOMAIN status.value.agents_status = 1..3
           /\ status.value.agents_count = 3
           /\ \A i \in 1..3 :
                 Reports(status.value.agents_status[i], collaborators[agents[i]])
           /\ Reports(status.value.coordinator_status, collaborators[coordinator])

\* the status of an engine whose priority agent carries no version and
\* whose coordinator carries one
C13_Witness ==
    /\ status.kind = "returned"
    /\ ~ HasAttr(collaborators["priority_agent"], "version")
    /\ HasAttr(collaborators[coordinator], "version")
    /\ status.value.agents_status[1] =
          [name |-> "Priority Agent", version |-> "unknown", status |-> "active"]
    /\ status.value.coordinator_status.version = "1.0.0"

\* thread t is inside a call, or its caller holds the outcome
InCall(t) == pc[t] # "idle"

\* C14: throughout a call and after it, the task and the people list are as
\* the caller passed them, Person records included, and the only step that
\* changes the pool on the ResourceFit collaborator is the injection, which
\* assigns it the pool the call resolved.
C14_InputsNotMutated ==
    [][ /\ \A t \in Threads :
             InCall(t)' => /\ task'[t] = via'[t].task
                           /\ people_arg'[t] = via'[t].people
        /\ available_people' # available_people
             => \E t \in Threads : /\ pc[t] = "inject"
                                    /\ available_people' = people[t] ]_vars

\* a call with a custom pool of two persons and a task without id has
\* succeeded, the pool injected, and both inputs are as they were passed
C14_Witness ==
    \E t \in Threads :
        /\ Succeeded(t)
        /\ via[t].task = TaskNoId /\ task[t] = TaskNoId
        /\ via[t].people = List(PoolB) /\ people_arg[t] = List(PoolB)
        /\ available_people = List(PoolB)
        /\ pool_before # available_people

\* C15: in sequential use the pool is injected before find_suitable_resources
\* is called: when the call is about to be made the ResourceFit collaborator
\* holds the pool this call resolved, and the pool it evaluated is that pool,
\* never the one an earlier call left.
C15_InjectionPrecedesResourceFit ==
    \A t \in Threads :
        /\ pc[t] = "resources" => available_people = people[t]
        /\ \A i \in 1..Len(calls[t]) :
              calls[t][i].fn = "find_suitable_resources" /\ ~ calls[t][i].raised
                  => calls[t][i].value.candidates = people[t]

\* an earlier call had left another pool, and find_suitable_resources
\* evaluated the pool of this call
C15_Witness ==
    \E t \in Threads :
        /\ pool_before = List(PoolA)
        /\ people[t] = List(PoolB)
        /\ Len(calls[t]) >= 2
        /\ calls[t][2].fn = "find_suitable_resources"
        /\ calls[t][2].value = [candidates |-> List(PoolB)]

\* the scoring collaborator method behind each key of agent_results
ScoringMethods ==
    [priority |-> "analyze_priority",
     resources |-> "find_suitable_resources",
     risks |-> "assess_risks"]

CoordinatorCalls(t) ==
    { i \in 1..Len(calls[t]) : calls[t][i].fn = "coordinate_decision" }

\* C16: in one call coordinate_decision is called at most once, after each
\* of the three scoring collaborators has returned, with the task the
\* caller passed and a mapping whose keys are exactly priority, resources
\* and risks, each bound to what that collaborator returned in this call.
C16_CoordinatorCalledOnceWithAllResults ==
    \A t \in Threads :
        /\ Cardinality(CoordinatorCalls(t)) <= 1
        /\ \A i \in CoordinatorCalls(t) :
              /\ calls[t][i].task = via[t].task
              /\ DOMAIN calls[t][i].results = DOMAIN ScoringMethods
              /\ \A k \in DOMAIN ScoringMethods :
                    \E j \in 1..(i - 1) :
                        /\ calls[t][j].fn = ScoringMethods[k]
                        /\ ~ calls[t][j].raised
                        /\ calls[t][i].results[k] = calls[t][j].value

\* a call succeeded: the fourth collaborator call was the Coordinator's,
\* with the three results of this call
C16_Witness ==
    \E t \in Threads :
        /\ Succeeded(t)
        /\ Len(calls[t]) = 4
        /\ CoordinatorCalls(t) = { 4 }
        /\ calls[t][4].results = agent_results[t]
        /\ calls[t][4].results["resources"] = [candidates |-> List(PoolB)]

\* the collaborator steps in the order of lines 67-82
StepOrder == << "priority", "resources", "risks", "coordinator" >>

\* C17: a collaborator call that raised is the last of its decision cycle:
\* the steps before it ran once each, no later step ran, none was retried,
\* and when the degraded Decision has been returned the ResourceFit
\* collaborator still holds the pool written before the failure.
C17_FailFast ==
    \A t \in Threads :
        /\ \A i \in 1..Len(calls[t]) : calls[t][i].raised => i = Len(calls[t])
        /\ \A i \in 1..Len(calls[t]), j \in 1..Len(calls[t]) :
              calls[t][i].fn = calls[t][j].fn => i = j
        /\ failed_at[t] = "task_get" => calls[t] = << >>
        /\ \A n \in 1..Len(StepOrder) :
              failed_at[t] = StepOrder[n]
                  => /\ Len(calls[t]) = n
                     /\ calls[t][n].raised
        /\ Degraded(t) => available_people = people[t]

\* analyze_priority raised: it was the only collaborator called, and the
\* pool of the failed call is still on the ResourceFit collaborator
C17_Witness ==
    \E t \in Threads :
        /\ Degraded(t)
        /\ failed_at[t] = "priority"
        /\ Len(calls[t]) = 1
        /\ people[t] = List(PoolB)
        /\ available_people = List(PoolB)
        /\ pool_before # available_people

====
